---- MODULE Spec2Model ----
(***************************************************************************)
(* Model of scripts/setup_app_icon.py (Quanta app icon setup).             *)
(*                                                                         *)
(* The state is the file system the script works on (directories and       *)
(* files with their content), the position of the current run of main      *)
(* and what that run has printed, called and written so far.  A file       *)
(* path is the pair of its directory and its file name, both the strings   *)
(* the script computes; a PNG content is the image it was resampled from   *)
(* and its pixel size; Contents.json is the dictionary the script dumps.   *)
(* A write may fail (an OSError of the environment); where the script does *)
(* not catch it the run ends with a traceback and status 1.  A behaviour   *)
(* has at most MaxFaults such failures and MaxRuns runs.                   *)
(***************************************************************************)
EXTENDS Integers, Sequences, FiniteSets, TLC

(* Bounds of the model: the runs of a behaviour, and the steps the         *)
(* environment makes fail in it.                                           *)
MaxRuns == 2
MaxFaults == 1

VARIABLES
    dirs,       \* the directories that exist
    fs,         \* the files that exist: path -> content
    pc,         \* where the current run of main stands
    argv,       \* sys.argv of the current run
    status,     \* the exit status, once pc = "exited"
    out,        \* the lines the current run printed (the ones that matter)
    calls,      \* the functions main called in the current run, in order
    written,    \* the paths the current run wrote, in order
    copied,     \* the targets the current run copied whole icons to
    faulted,    \* the environment made a step of the current run fail
    faults,     \* the number of steps the environment has made fail
    runs,       \* the number of runs started
    startDirs,  \* dirs when the current run started
    startFs,    \* fs when the current run started
    lastOk,     \* the source image of the run before, if it exited with 0
    genResult   \* what generate_icons returned in the current run

vars == <<dirs, fs, pc, argv, status, out, calls, written, copied,
          faulted, faults, runs, startDirs, startFs, lastOk, genResult>>

(***************************************************************************)
(* Strings: paths and file names.                                          *)
(***************************************************************************)
Char(s, i) == SubSeq(s, i, i)

(* str.endswith *)
EndsWith(s, suffix) ==
    /\ Len(s) >= Len(suffix)
    /\ SubSeq(s, Len(s) - Len(suffix) + 1, Len(s)) = suffix

(* str.startswith *)
StartsWith(s, prefix) ==
    /\ Len(s) >= Len(prefix)
    /\ SubSeq(s, 1, Len(prefix)) = prefix

(* Position of the last "/" of a path string, 0 when there is none. *)
LastSlash(p) ==
    LET at == {i \in 1..Len(p) : Char(p, i) = "/"}
    IN  IF at = {} THEN 0 ELSE CHOOSE i \in at : \A j \in at : j <= i

(* os.path.split of a path string: <<directory, file name>>. *)
SplitAt(p, i) ==
    <<IF i = 0 THEN "" ELSE SubSeq(p, 1, i - 1), SubSeq(p, i + 1, Len(p))>>

SplitPath(p) == SplitAt(p, LastSlash(p))

(* os.path.dirname and os.path.basename of a path *)
Dirname(p) == p[1]
Basename(p) == p[2]

(* The path as one string. *)
PathString(p) == IF p[1] = "" THEN p[2] ELSE p[1] \o "/" \o p[2]

(* os.path.join of a directory and a file name *)
PathJoin(d, name) == <<d, name>>

(* The directory itself and every directory above it: what os.makedirs     *)
(* leaves in existence.                                                    *)
Ancestors(d) ==
    {SubSeq(d, 1, i - 1) : i \in {j \in 1..Len(d) : Char(d, j) = "/"}} \cup {d}

(***************************************************************************)
(* The size tables (ICON_SIZES) and the directory list.                     *)
(***************************************************************************)
ICON_SIZES ==
    [ios |-> << <<1024, 1024, "ios-marketing">>,
                <<180, 180, "iphone-app-60pt@3x">>,
                <<167, 167, "ipad-pro-app">>,
                <<152, 152, "ipad-app-76pt@2x">>,
                <<120, 120, "iphone-app-60pt@2x">>,
                <<87, 87, "iphone-settings-29pt@3x">>,
                <<80, 80, "iphone-spotlight-40pt@2x">>,
                <<76, 76, "ipad-app-76pt@1x">>,
                <<58, 58, "iphone-settings-29pt@2x">>,
                <<40, 40, "iphone-spotlight-40pt@1x">>,
                <<29, 29, "iphone-settings-29pt@1x">>,
                <<20, 20, "iphone-notification-20pt@1x">> >>,
     android |-> << <<192, 192, "xxxhdpi">>,
                    <<144, 144, "xxhdpi">>,
                    <<96, 96, "xhdpi">>,
                    <<72, 72, "hdpi">>,
                    <<48, 48, "mdpi">> >>,
     store |-> << <<512, 512, "play_store">>,
                  <<1024, 500, "play_store_feature">> >>]

(* Variant: one directory of the list is misspelt. *)
directories_Typo ==
    << "assets/app_icons/generated/ios",
       "assets/app_icons/generated/android",
       "assets/app_icons/generated/store",
       "android/app/src/main/res/mipmap-xxxhdpi",
       "android/app/src/main/res/mipmap-xxhdpi",
       "android/app/src/main/res/mipmap-xhdpi",
       "android/app/src/main/res/mipmap-hdpi",
       "android/app/src/main/res/mipmap-mpdi",
       "ios/Runner/Assets.xcassets/AppIcon.appiconset" >>

directories ==
    << "assets/app_icons/generated/ios",
       "assets/app_icons/generated/android",
       "assets/app_icons/generated/store",
       "android/app/src/main/res/mipmap-xxxhdpi",
       "android/app/src/main/res/mipmap-xxhdpi",
       "android/app/src/main/res/mipmap-xhdpi",
       "android/app/src/main/res/mipmap-hdpi",
       "android/app/src/main/res/mipmap-mdpi",
       "ios/Runner/Assets.xcassets/AppIcon.appiconset" >>

(***************************************************************************)
(* The file system.                                                        *)
(***************************************************************************)
(* os.path.exists *)
PathExists(ds, fsys, p) == PathString(p) \in ds \/ p \in DOMAIN fsys

(* os.listdir: the names of the files and directories directly in d. *)
ListDir(ds, fsys, d) ==
    {Basename(p) : p \in {q \in DOMAIN fsys : Dirname(q) = d}}
    \cup {Basename(SplitPath(e)) : e \in {x \in ds : StartsWith(x, d \o "/")
                                             /\ Dirname(SplitPath(x)) = d}}

(* Writing a file raises when its directory does not exist. *)
WriteRaises(ds, p) == Dirname(p) \notin ds

(* fsys after the first n writes of the sequence outs of [path, content]   *)
(* records, a later write of a path replacing an earlier one.              *)
RECURSIVE WriteAll(_, _, _)
WriteAll(fsys, outs, n) ==
    IF n = 0 THEN fsys
    ELSE (outs[n].path :> outs[n].content) @@ WriteAll(fsys, outs, n - 1)

(* For each directory of the list, the directory and those above it, as   *)
(* strings and as <<parent, name>>, the path a file in its place would     *)
(* have.                                                                   *)
directory_ancestors ==
    [i \in 1..Len(directories) |-> Ancestors(directories[i])]

directory_paths ==
    [i \in 1..Len(directories) |->
        {SplitPath(a) : a \in Ancestors(directories[i])}]

(* os.makedirs(d, exist_ok=True) of the i-th directory of the list raises  *)
(* only when d, or a directory above it, exists as a file: nothing is made *)
(* then, the directories above the file being there already.               *)
MakedirsRaises(ds, fsys, i) == directory_paths[i] \cap DOMAIN fsys # {}

(* What os.makedirs on the first n entries of the list brings into         *)
(* existence, and the directories after it.                                *)
makedirs ==
    [n \in 0..Len(directories) |->
        UNION {directory_ancestors[i] : i \in 1..n}]

MakeDirs(ds, n) == ds \cup makedirs[n]

(* os.makedirs makes the missing directories one mkdir at a time, from the *)
(* top: the ones the i-th entry still needs, and the directories after the *)
(* first m of them were made.                                              *)
MissingDirs(ds, i) == directory_ancestors[i] \ ds

MakeDirsPartly(ds, i, m) ==
    ds \cup {a \in MissingDirs(ds, i) :
                Cardinality({b \in MissingDirs(ds, i) : Len(b) < Len(a)}) < m}

(***************************************************************************)
(* The project tree before the first run: the source images the script is  *)
(* pointed at, and files left in generated/ios by earlier work.            *)
(***************************************************************************)
Original(name, w, h) ==
    [kind |-> "png", src |-> name, w |-> w, h |-> h, layout |-> "original"]

InputFiles ==
    (<<"assets/app_icons", "quanta_icon_1024.png">>
        :> Original("quanta", 1024, 1024))
    @@ (<<"assets/app_icons", "draft_800x600.png">>
        :> Original("draft", 800, 600))
    @@ (<<"", "README.md">> :> [kind |-> "text"])

StaleFiles ==
    (<<"assets/app_icons/generated/ios", "icon_57x57_legacy.png">>
        :> Original("legacy", 57, 57))
    @@ (<<"assets/app_icons/generated/ios", "notes.txt">> :> [kind |-> "text"])

DirsOf(fsys) == UNION {Ancestors(Dirname(p)) : p \in DOMAIN fsys} \ {""}

(* sys.argv of a run: the script name and the arguments given. *)
Script == "setup_app_icon.py"
ArgvChoices ==
    { <<Script>>,
      <<Script, "assets/app_icons/quanta_icon_1024.png">>,
      <<Script, "assets/app_icons/draft_800x600.png">>,
      <<Script, "README.md">>,
      <<Script, "assets/app_icons/missing.png">>,
      <<Script, "assets/app_icons/quanta_icon_1024.png", "--force">> }

(* os.path.split of each path a command line names. *)
ArgPath ==
    [a \in {c[2] : c \in {x \in ArgvChoices : Len(x) >= 2}} |-> SplitPath(a)]

Init ==
    /\ fs = StaleFiles @@ InputFiles
    /\ dirs = DirsOf(StaleFiles @@ InputFiles)
    /\ pc = "idle"
    /\ argv = <<Script>>
    /\ status = 0
    /\ out = <<>>
    /\ calls = <<>>
    /\ written = <<>>
    /\ copied = {}
    /\ faulted = FALSE
    /\ faults = 0
    /\ runs = 0
    /\ startDirs = dirs
    /\ startFs = fs
    /\ lastOk = ""
    /\ genResult = "none"

(***************************************************************************)
(* A run of the script is started with some command line.  Runs are       *)
(* started until MaxRuns of them were made or the environment has made     *)
(* MaxFaults steps fail.                                                   *)
(***************************************************************************)
Invoke ==
    /\ pc \in {"idle", "exited"}
    /\ runs < MaxRuns
    /\ faults < MaxFaults
    /\ \E a \in ArgvChoices : argv' = a
    /\ pc' = "main"
    /\ runs' = runs + 1
    /\ lastOk' = IF pc = "exited" /\ status = 0 THEN argv[2] ELSE ""
    /\ startDirs' = dirs
    /\ startFs' = fs
    /\ out' = <<>>
    /\ calls' = <<>>
    /\ written' = <<>>
    /\ copied' = {}
    /\ faulted' = FALSE
    /\ status' = 0
    /\ genResult' = "none"
    /\ UNCHANGED <<dirs, fs, faults>>

(* An uncaught exception: traceback on stderr, exit status 1. *)
Crash ==
    /\ pc' = "exited"
    /\ status' = 1

(* Variant: the argument count is checked after the directories are made. *)
MainUsage_AfterDirs ==
    /\ pc = "main"
    /\ Len(argv) # 2
    /\ dirs' = MakeDirs(dirs, Len(directories))
    /\ out' = out \o <<"Usage: python setup_app_icon.py <source_image_path>">>
    /\ pc' = "exited"
    /\ status' = 1
    /\ UNCHANGED <<fs, argv, calls, written, copied, faulted, faults,
                   runs, startDirs, startFs, lastOk, genResult>>

(* main, lines 186-189: the argument count check. *)
MainUsage ==
    /\ pc = "main"
    /\ Len(argv) # 2
    /\ out' = out \o <<"Usage: python setup_app_icon.py <source_image_path>">>
    /\ pc' = "exited"
    /\ status' = 1
    /\ UNCHANGED <<dirs, fs, argv, calls, written, copied, faulted, faults,
                   runs, startDirs, startFs, lastOk, genResult>>

(***************************************************************************)
(* Raising steps.  First is the first of the indices at which a step      *)
(* raises by itself, 0 when there is none; FailAt joins it with the index  *)
(* k at which the environment makes the step fail (0: nowhere).            *)
(***************************************************************************)
First(bad) ==
    IF bad = {} THEN 0 ELSE CHOOSE i \in bad : \A j \in bad : i <= j

FailAt(natural, k) ==
    IF natural = 0 THEN k
    ELSE IF k = 0 THEN natural
    ELSE IF k < natural THEN k ELSE natural

(* What a failed write leaves at its path: nothing new (the open failed,   *)
(* or the file it had just created was removed), or a truncated file.       *)
Truncated == [kind |-> "partial"]

(* Variant: the handler removes what the run wrote into that directory. *)
AfterFailedWrite_Cleanup(fsys, p, damage) ==
    [q \in {x \in DOMAIN fsys : Dirname(x) # Dirname(p)} |-> fsys[q]]

AfterFailedWrite(fsys, p, damage) ==
    IF damage THEN (p :> Truncated) @@ fsys ELSE fsys

(* create_directories, lines 41-57.  It runs when exactly one argument was *)
(* given (main, line 197). *)
CreateDirectories ==
    /\ pc = "main"
    /\ Len(argv) = 2
    /\ calls' = Append(calls, "create_directories")
    /\ \E natural \in {First({i \in 1..Len(directories) :
                                MakedirsRaises(dirs, fs, i)})} :
       \E k \in 0..Len(directories) :
       \E f \in {FailAt(natural, k)} :
          /\ k # 0 => faults < MaxFaults
          /\ faults' = IF k # 0 THEN faults + 1 ELSE faults
          /\ faulted' = (faulted \/ k # 0)
          /\ IF f = 0
             THEN /\ dirs' = MakeDirs(dirs, Len(directories))
                  /\ pc' = "dirs_made"
                  /\ status' = status
             ELSE /\ \E before \in {MakeDirs(dirs, f - 1)} :
                     \E m \in 0..(IF f = natural THEN 0
                                  ELSE Cardinality(MissingDirs(before, f))) :
                        /\ m = 0 \/ m < Cardinality(MissingDirs(before, f))
                        /\ dirs' = MakeDirsPartly(before, f, m)
                  /\ Crash
    /\ UNCHANGED <<fs, argv, out, written, copied, runs, startDirs, startFs,
                   lastOk, genResult>>

(***************************************************************************)
(* generate_icons, lines 59-120.                                           *)
(***************************************************************************)
(* Image.open raises on a directory and on a file that is no image. *)
ImageOpenRaises(ds, fsys, p) == p \notin DOMAIN fsys \/ fsys[p].kind # "png"

(* Variant: the picture is fitted into w x h keeping its proportions, as   *)
(* Image.thumbnail does.                                                   *)
Resize_KeepAspect(img, w, h) ==
    [kind |-> "png", src |-> img.src, w |-> w, h |-> (h * img.h) \div img.w,
     layout |-> "resized"]

(* img.resize((w, h), LANCZOS): the same picture at w x h pixels. *)
Resize(img, w, h) ==
    [kind |-> "png", src |-> img.src, w |-> w, h |-> h, layout |-> "resized"]

(* Lines 104-107: a new 1024 x 500 canvas with the icon pasted on it. *)
FeatureGraphic(img) ==
    [kind |-> "png", src |-> img.src, w |-> 1024, h |-> 500,
     layout |-> "feature"]

(* Variant: the size is left out of the file name. *)
IconName_NoSize(w, h, name) == "icon_" \o name \o ".png"

(* f"icon_{width}x{height}_{name}.png" *)
IconName(w, h, name) ==
    "icon_" \o ToString(w) \o "x" \o ToString(h) \o "_" \o name \o ".png"

(* Lines 74-78: one write per entry of the iOS table. *)
IosOutputs(img) ==
    [i \in 1..Len(ICON_SIZES.ios) |->
        LET e == ICON_SIZES.ios[i]
        IN  [path |-> <<"assets/app_icons/generated/ios",
                        IconName(e[1], e[2], e[3])>>,
             content |-> Resize(img, e[1], e[2])]]

(* Lines 82-97: three writes of the same resized image per density. *)
AndroidOutputs(img) ==
    [j \in 1..(3 * Len(ICON_SIZES.android)) |->
        LET e == ICON_SIZES.android[((j - 1) \div 3) + 1]
            resized == Resize(img, e[1], e[2])
        IN  CASE (j - 1) % 3 = 0 ->
                   [path |-> <<"assets/app_icons/generated/android",
                               IconName(e[1], e[2], e[3])>>,
                    content |-> resized]
              [] (j - 1) % 3 = 1 ->
                   [path |-> <<"android/app/src/main/res/mipmap-" \o e[3],
                               "ic_launcher.png">>,
                    content |-> resized]
              [] OTHER ->
                   [path |-> <<"android/app/src/main/res/mipmap-" \o e[3],
                               "ic_launcher_round.png">>,
                    content |-> resized]]

(* Lines 101-114: one write per entry of the store table. *)
StoreOutputs(img) ==
    [i \in 1..Len(ICON_SIZES.store) |->
        LET e == ICON_SIZES.store[i]
        IN  IF e[1] = 1024 /\ e[2] = 500
            THEN [path |-> <<"assets/app_icons/generated/store",
                             "feature_graphic_1024x500.png">>,
                  content |-> FeatureGraphic(img)]
            ELSE [path |-> <<"assets/app_icons/generated/store",
                             IconName(e[1], e[2], e[3])>>,
                  content |-> Resize(img, e[1], e[2])]]

(* Every write of generate_icons, in the order the code makes them. *)
GenOutputs(img) == IosOutputs(img) \o AndroidOutputs(img) \o StoreOutputs(img)

Paths(outs, n) == [i \in 1..n |-> outs[i].path]

SizeWarning(img) ==
    IF <<img.w, img.h>> # <<1024, 1024>>
    THEN <<"Warning: Source image is not (1024, 1024)">>
    ELSE <<>>

(* The values the function computes once are bound by \E over a one-      *)
(* element set.                                                            *)
GenerateIcons ==
    /\ pc = "dirs_made"
    /\ calls' = Append(calls, "generate_icons")
    /\ \E source_image_path \in {ArgPath[argv[2]]} :
          IF ~PathExists(dirs, fs, source_image_path)
          THEN /\ out' = out \o <<"Source image not found">>
               /\ pc' = "gen_false"
               /\ UNCHANGED <<fs, written, faulted, faults>>
          ELSE IF ImageOpenRaises(dirs, fs, source_image_path)
          THEN /\ out' = out \o <<"Error generating icons">>
               /\ pc' = "gen_false"
               /\ UNCHANGED <<fs, written, faulted, faults>>
          ELSE \E img \in {fs[source_image_path]} :
               \E outs \in {GenOutputs(img)} :
               \E natural \in {First({i \in 1..Len(outs) :
                                         WriteRaises(dirs, outs[i].path)})} :
               \E k \in 0..Len(outs), damage \in BOOLEAN :
               \E f \in {FailAt(natural, k)} :
                  /\ k # 0 => faults < MaxFaults
                  /\ k = 0 => ~damage
                  /\ faults' = IF k # 0 THEN faults + 1 ELSE faults
                  /\ faulted' = (faulted \/ k # 0)
                  /\ IF f = 0
                     THEN /\ fs' = WriteAll(fs, outs, Len(outs))
                          /\ written' = written \o Paths(outs, Len(outs))
                          /\ out' = out \o SizeWarning(img)
                          /\ pc' = "gen_true"
                     ELSE /\ fs' = AfterFailedWrite(WriteAll(fs, outs, f - 1),
                                                    outs[f].path, damage)
                          /\ written' = written \o Paths(outs, f - 1)
                          /\ out' = out \o SizeWarning(img)
                                        \o <<"Error generating icons">>
                          /\ pc' = "gen_false"
    /\ genResult' = IF pc' = "gen_true" THEN "True" ELSE "False"
    /\ UNCHANGED <<dirs, argv, status, copied, runs, startDirs, startFs, lastOk>>

(* Variant: the steps after generation are not gated on its result. *)
IfGenerated_Always == pc \in {"gen_true", "gen_false"}

(* main, line 200: if generate_icons(source_image), and its else. *)
IfGenerated == pc = "gen_true"
ElseNotGenerated == pc = "gen_false"

(* Variant: the failure is reported but sys.exit(1) is left out. *)
MainGenerationFailed_NoExit ==
    /\ pc = "gen_false"
    /\ out' = out \o <<"Icon generation failed">>
    /\ pc' = "exited"
    /\ status' = 0
    /\ UNCHANGED <<dirs, fs, argv, calls, written, copied, faulted, faults,
                   runs, startDirs, startFs, lastOk, genResult>>

(* main, lines 204-206: generate_icons returned False. *)
MainGenerationFailed ==
    /\ ElseNotGenerated
    /\ out' = out \o <<"Icon generation failed">>
    /\ pc' = "exited"
    /\ status' = 1
    /\ UNCHANGED <<dirs, fs, argv, calls, written, copied, faulted, faults,
                   runs, startDirs, startFs, lastOk, genResult>>

(***************************************************************************)
(* create_ios_contents_json, lines 122-149.                                *)
(***************************************************************************)
(* Variant: every entry is given the scale 1x. *)
Entry_Scale1x(filename, idiom, scale, size) ==
    [filename |-> filename, idiom |-> idiom, scale |-> "1x", size |-> size]

Entry(filename, idiom, scale, size) ==
    [filename |-> filename, idiom |-> idiom, scale |-> scale, size |-> size]

contents ==
    [kind |-> "json",
     images |-> <<
        Entry("icon_1024x1024_ios-marketing.png", "ios-marketing", "1x", "1024x1024"),
        Entry("icon_180x180_iphone-app-60pt@3x.png", "iphone", "3x", "60x60"),
        Entry("icon_120x120_iphone-app-60pt@2x.png", "iphone", "2x", "60x60"),
        Entry("icon_87x87_iphone-settings-29pt@3x.png", "iphone", "3x", "29x29"),
        Entry("icon_58x58_iphone-settings-29pt@2x.png", "iphone", "2x", "29x29"),
        Entry("icon_29x29_iphone-settings-29pt@1x.png", "iphone", "1x", "29x29"),
        Entry("icon_80x80_iphone-spotlight-40pt@2x.png", "iphone", "2x", "40x40"),
        Entry("icon_40x40_iphone-spotlight-40pt@1x.png", "iphone", "1x", "40x40"),
        Entry("icon_20x20_iphone-notification-20pt@1x.png", "iphone", "1x", "20x20"),
        Entry("icon_167x167_ipad-pro-app.png", "ipad", "2x", "83.5x83.5"),
        Entry("icon_152x152_ipad-app-76pt@2x.png", "ipad", "2x", "76x76"),
        Entry("icon_76x76_ipad-app-76pt@1x.png", "ipad", "1x", "76x76") >>,
     info |-> [author |-> "Quanta App Icon Generator", version |-> 1]]

contents_path ==
    <<"ios/Runner/Assets.xcassets/AppIcon.appiconset", "Contents.json">>

(* open(path, 'w') raises when the directory is missing or the path is a   *)
(* directory.                                                              *)
OpenForWriteRaises(ds, p) == WriteRaises(ds, p) \/ PathString(p) \in ds

(* Variant: the file is opened for appending, so that a second dump adds   *)
(* its entries to those of the first.                                      *)
JsonDump_Append(fsys, p, c) ==
    IF p \in DOMAIN fsys /\ fsys[p].kind = "json"
    THEN (p :> [c EXCEPT !.images = fsys[p].images \o c.images]) @@ fsys
    ELSE (p :> c) @@ fsys

(* Lines 146-147: open(contents_path, 'w') and json.dump: the file holds   *)
(* the dictionary, whatever it held before.                                *)
JsonDump(fsys, p, c) == (p :> c) @@ fsys

CreateIosContentsJson ==
    /\ IfGenerated
    /\ calls' = Append(calls, "create_ios_contents_json")
    /\ \E fail \in BOOLEAN, damage \in BOOLEAN :
          /\ fail => faults < MaxFaults
          /\ ~fail => ~damage
          /\ faults' = IF fail THEN faults + 1 ELSE faults
          /\ faulted' = (faulted \/ fail)
          /\ IF fail \/ OpenForWriteRaises(dirs, contents_path)
             THEN /\ fs' = AfterFailedWrite(fs, contents_path, damage)
                  /\ Crash
                  /\ UNCHANGED <<out, written>>
             ELSE /\ fs' = JsonDump(fs, contents_path, contents)
                  /\ written' = Append(written, contents_path)
                  /\ out' = out \o <<"Created iOS Contents.json">>
                  /\ pc' = "json_done"
                  /\ status' = status
    /\ UNCHANGED <<dirs, argv, copied, runs, startDirs, startFs, lastOk,
                   genResult>>

(***************************************************************************)
(* copy_icons_to_ios, lines 151-168.                                       *)
(***************************************************************************)
source_dir == "assets/app_icons/generated/ios"
target_dir == "ios/Runner/Assets.xcassets/AppIcon.appiconset"

(* source_dir as <<parent, name>>: os.path.exists(source_dir) holds when   *)
(* it is a directory or a file.                                            *)
source_dir_path == SplitPath(source_dir)

(* The names the loop copies: every entry of source_dir ending in .png. *)
PngNames(ds, fsys) == {n \in ListDir(ds, fsys, source_dir) : EndsWith(n, ".png")}

(* shutil.copy2 raises on a directory and on a missing target directory. *)
CopyRaises(ds, name) ==
    \/ PathString(PathJoin(source_dir, name)) \in ds
    \/ WriteRaises(ds, PathJoin(target_dir, name))

(* fsys after shutil.copy2 of each of the names. *)
CopyAll(fsys, names) ==
    [p \in {PathJoin(target_dir, n) : n \in names} |->
        fsys[PathJoin(source_dir, Basename(p))]] @@ fsys

(* The copy targets of the names. *)
Targets(names) == {PathJoin(target_dir, n) : n \in names}

(* The loop takes the names in the order os.listdir hands them out, which  *)
(* is arbitrary: when the copy of a name fails, any set of the other names *)
(* whose copy does not raise may have been copied before it.  shutil.copy2 *)
(* copies the content and then the metadata: the copy that fails leaves no *)
(* target, a truncated target (a fault part-way through the content), or   *)
(* the whole target (a fault in the metadata step); it raises by itself on *)
(* the names in raising, before it writes.                                 *)
CopyIconsToIos ==
    /\ pc = "json_done"
    /\ calls' = Append(calls, "copy_icons_to_ios")
    /\ IF source_dir \notin dirs /\ source_dir_path \notin DOMAIN fs
       THEN /\ out' = out \o <<"iOS icons not found">>
            /\ pc' = "copy_done"
            /\ UNCHANGED <<fs, copied, status, faulted, faults>>
       ELSE IF source_dir \notin dirs
       THEN (* source_dir is a file: os.listdir raises *)
            /\ Crash
            /\ UNCHANGED <<fs, out, copied, faulted, faults>>
       ELSE \E names \in {PngNames(dirs, fs)} :
            \E raising \in {{n \in names : CopyRaises(dirs, n)}} :
               \/ /\ raising = {}
                  /\ fs' = CopyAll(fs, names)
                  /\ copied' = Targets(names)
                  /\ pc' = "copy_done"
                  /\ UNCHANGED <<out, status, faulted, faults>>
               \/ \E done \in SUBSET (names \ raising) :
                  \E fault \in {b \in BOOLEAN :
                                  \E n \in names \ done : (n \notin raising) = b} :
                     /\ fault => faults < MaxFaults
                     /\ faults' = IF fault THEN faults + 1 ELSE faults
                     /\ faulted' = (faulted \/ fault)
                     /\ fs' = CopyAll(fs, done)
                     /\ copied' = Targets(done)
                     /\ Crash
                     /\ out' = out
               \/ \E n \in names \ raising :
                  \E done \in SUBSET ((names \ raising) \ {n}) :
                     /\ faults < MaxFaults
                     /\ faults' = faults + 1
                     /\ faulted' = TRUE
                     /\ fs' = AfterFailedWrite(CopyAll(fs, done),
                                               PathJoin(target_dir, n), TRUE)
                     /\ copied' = Targets(done)
                     /\ Crash
                     /\ out' = out
               \/ (* the last of the copies made raised after its content *)
                  \E done \in SUBSET (names \ raising) :
                     /\ done # {}
                     /\ faults < MaxFaults
                     /\ faults' = faults + 1
                     /\ faulted' = TRUE
                     /\ fs' = CopyAll(fs, done)
                     /\ copied' = Targets(done)
                     /\ Crash
                     /\ out' = out
    /\ UNCHANGED <<dirs, argv, written, runs, startDirs, startFs, lastOk,
                   genResult>>

(* print_next_steps, lines 170-183, and the normal end of main. *)
PrintNextSteps ==
    /\ pc = "copy_done"
    /\ calls' = Append(calls, "print_next_steps")
    /\ out' = out \o <<"Icon generation complete!">>
    /\ pc' = "exited"
    /\ status' = 0
    /\ UNCHANGED <<dirs, fs, argv, written, copied, faulted, faults, runs,
                   startDirs, startFs, lastOk,
                   genResult>>

Next == Invoke \/ MainUsage \/ CreateDirectories \/ GenerateIcons
        \/ MainGenerationFailed \/ CreateIosContentsJson \/ CopyIconsToIos
        \/ PrintNextSteps

Spec == Init /\ [][Next]_vars

(***************************************************************************)
(*                          PROPERTIES                                     *)
(***************************************************************************)
(* The elements of a sequence. *)
Range(seq) == {seq[i] : i \in 1..Len(seq)}

RunEnded == pc = "exited"
RunSucceeded == pc = "exited" /\ status = 0

(* The source image path of the current run and what it named when the run *)
(* started.                                                                *)
SourceArg == ArgPath[argv[2]]
SourceOpenable ==
    /\ Len(argv) = 2
    /\ \A p \in {SourceArg} : p \in DOMAIN startFs /\ startFs[p].kind = "png"
SourceMissing ==
    /\ Len(argv) = 2
    /\ ~PathExists(startDirs, startFs, SourceArg)

GeneratedIos == "assets/app_icons/generated/ios"
GeneratedAndroid == "assets/app_icons/generated/android"
GeneratedStore == "assets/app_icons/generated/store"
AppIconSet == "ios/Runner/Assets.xcassets/AppIcon.appiconset"
Mipmap(density) == "android/app/src/main/res/mipmap-" \o density
ManifestPath == <<AppIconSet, "Contents.json">>

(* icon_{w}x{h}_{name}.png, as the specification writes the file names. *)
NameOf(e) ==
    "icon_" \o ToString(e[1]) \o "x" \o ToString(e[2]) \o "_" \o e[3] \o ".png"

IosNames == {NameOf(e) : e \in Range(ICON_SIZES.ios)}

Want(dir, name, w, h) == [path |-> <<dir, name>>, w |-> w, h |-> h]

(* The outputs in the order of the writes: the iOS table, the Android      *)
(* table with three writes per density, the store table.                   *)
WriteOrder ==
    [i \in 1..12 |->
        Want(GeneratedIos, NameOf(ICON_SIZES.ios[i]),
             ICON_SIZES.ios[i][1], ICON_SIZES.ios[i][2])]
    \o [j \in 1..15 |->
          LET e == ICON_SIZES.android[((j - 1) \div 3) + 1]
          IN  IF j % 3 = 1 THEN Want(GeneratedAndroid, NameOf(e), e[1], e[2])
              ELSE IF j % 3 = 2
              THEN Want(Mipmap(e[3]), "ic_launcher.png", e[1], e[2])
              ELSE Want(Mipmap(e[3]), "ic_launcher_round.png", e[1], e[2])]
    \o << Want(GeneratedStore, "icon_512x512_play_store.png", 512, 512),
          Want(GeneratedStore, "feature_graphic_1024x500.png", 1024, 500) >>

Wanted == Range(WriteOrder)
WantedPaths == {x.path : x \in Wanted}
WantedIn(dir) == {x \in Wanted : Dirname(x.path) = dir}

TablesAsSpecified ==
    /\ Len(ICON_SIZES.ios) = 12
    /\ Len(ICON_SIZES.android) = 5
    /\ Len(ICON_SIZES.store) = 2
    /\ Cardinality(WantedIn(GeneratedIos)) = 12
    /\ Cardinality(WantedIn(GeneratedAndroid)) = 5
    /\ \A e \in Range(ICON_SIZES.android) :
          Cardinality(WantedIn(Mipmap(e[3]))) = 2
    /\ Cardinality(WantedIn(GeneratedStore)) = 2
    /\ Cardinality(WantedPaths) = 29

(* The file at x.path is a PNG made from the image img, of x's pixel size. *)
Made(fsys, x, img) ==
    /\ x.path \in DOMAIN fsys
    /\ fsys[x.path].kind = "png"
    /\ fsys[x.path].src = img.src
    /\ fsys[x.path].w = x.w
    /\ fsys[x.path].h = x.h

(* C1: for a source image that exists and opens, whatever its size, a run  *)
(* in which no write fails leaves the complete set of PNG outputs: 12 iOS  *)
(* files, 3 files for each of the 5 Android densities and the 2 store      *)
(* files, each of the pixel size of its table entry, ic_launcher.png and   *)
(* ic_launcher_round.png of a density holding the same image.              *)
C1_CompleteOutputs ==
    (RunEnded /\ ~faulted /\ SourceOpenable) =>
        /\ TablesAsSpecified
        /\ \A img \in {startFs[SourceArg]} : \A x \in Wanted : Made(fs, x, img)
        /\ \A e \in Range(ICON_SIZES.android) :
              fs[<<Mipmap(e[3]), "ic_launcher.png">>]
                 = fs[<<Mipmap(e[3]), "ic_launcher_round.png">>]

C1_Witness ==
    /\ RunEnded /\ SourceOpenable /\ ~faulted
    /\ <<startFs[SourceArg].w, startFs[SourceArg].h>> = <<800, 600>>
    /\ "Warning: Source image is not (1024, 1024)" \in Range(out)
    /\ Made(fs, Want(GeneratedStore, "feature_graphic_1024x500.png", 1024, 500),
            startFs[SourceArg])
    /\ Made(fs, Want(Mipmap("mdpi"), "ic_launcher_round.png", 48, 48),
            startFs[SourceArg])

Manifest == fs[ManifestPath]
ManifestOnDisk == ManifestPath \in DOMAIN fs /\ Manifest.kind = "json"
ManifestNames == {Manifest.images[i].filename : i \in 1..Len(Manifest.images)}

(* C2: after a successful run the file names of the manifest               *)
(* Contents.json are exactly the names icon_{w}x{h}_{name}.png of the 12   *)
(* iOS table entries, one manifest entry per name, and every file the      *)
(* manifest names is in AppIcon.appiconset with the content of the file of *)
(* that name in generated/ios.                                             *)
C2_ManifestMatchesFiles ==
    RunSucceeded =>
        /\ ManifestOnDisk
        /\ Len(ICON_SIZES.ios) = 12
        /\ Len(Manifest.images) = 12
        /\ \A names \in {ManifestNames} :
              /\ names = IosNames
              /\ Cardinality(names) = 12
              /\ \A n \in names :
                    /\ <<AppIconSet, n>> \in DOMAIN fs
                    /\ <<GeneratedIos, n>> \in DOMAIN fs
                    /\ fs[<<AppIconSet, n>>] = fs[<<GeneratedIos, n>>]
                    /\ fs[<<AppIconSet, n>>].kind = "png"

C2_Witness ==
    /\ RunSucceeded
    /\ <<AppIconSet, "icon_167x167_ipad-pro-app.png">> \in copied
    /\ fs[<<AppIconSet, "icon_167x167_ipad-pro-app.png">>].w = 167
    /\ ManifestPath \in Range(written)

(* C3: when the source image path does not exist, generate_icons returns   *)
(* False without writing, main exits with status 1, no icon and no         *)
(* Contents.json is written and nothing is copied; the run changes nothing *)
(* but the directories create_directories makes, which it makes before     *)
(* the path is looked at.                                                  *)
C3_MissingSource ==
    (pc \notin {"idle", "main"} /\ SourceMissing) =>
        /\ fs = startFs
        /\ written = <<>>
        /\ copied = {}
        /\ dirs \subseteq MakeDirs(startDirs, Len(directories))
        /\ genResult # "True"
        /\ genResult = "False" =>
              /\ calls = <<"create_directories", "generate_icons">>
              /\ "Source image not found" \in Range(out)
              /\ dirs = MakeDirs(startDirs, Len(directories))
        /\ RunEnded => status = 1

C3_Witness ==
    /\ SourceMissing /\ RunEnded /\ status = 1
    /\ genResult = "False"
    /\ dirs # startDirs
    /\ fs = startFs

(* C5: with a number of arguments other than one, main prints the usage    *)
(* and exits with status 1 before create_directories: no directory is      *)
(* made and no file is written, copied or changed.                         *)
C5_UsageNoEffect ==
    (Len(argv) # 2 /\ pc \notin {"idle", "main"}) =>
        /\ RunEnded
        /\ status = 1
        /\ out = <<"Usage: python setup_app_icon.py <source_image_path>">>
        /\ calls = <<>>
        /\ dirs = startDirs
        /\ fs = startFs
        /\ written = <<>>
        /\ copied = {}

C5_Witness ==
    /\ RunEnded /\ Len(argv) = 3 /\ status = 1
    /\ "create_directories" \notin Range(calls)
    /\ AppIconSet \notin dirs

FullOrder ==
    <<"create_directories", "generate_icons", "create_ios_contents_json",
      "copy_icons_to_ios", "print_next_steps">>

IsPrefix(a, b) == Len(a) <= Len(b) /\ a = SubSeq(b, 1, Len(a))

ManifestWritten == ManifestPath \in Range(written)

(* The part of C4 that is about order and gates: the steps come in the     *)
(* fixed order; Contents.json is written and icons are copied only after a *)
(* generation that returned True, that is after every output was written;  *)
(* the run reports completion and exits with 0 only when all the steps     *)
(* were made.                                                              *)
OrderAndGates ==
    /\ IsPrefix(calls, FullOrder)
    /\ (ManifestWritten \/ copied # {}) =>
          /\ genResult = "True"
          /\ WantedPaths \subseteq Range(written)
    /\ Len(calls) > 2 => genResult = "True"
    /\ ("Icon generation complete!" \in Range(out) \/ RunSucceeded) =>
          /\ calls = FullOrder
          /\ ManifestWritten
          /\ copied # {}

(* C4: as stated: besides the order and the gates, at the end of a run     *)
(* create_ios_contents_json, copy_icons_to_ios and print_next_steps have   *)
(* been executed, in that order, if and only if generate_icons returned    *)
(* True.                                                                   *)
C4_AsStated ==
    /\ OrderAndGates
    /\ RunEnded => (genResult = "True" <=> calls = FullOrder)

(* C4: as amended: create_ios_contents_json is executed if and only if     *)
(* generate_icons returned True; copy_icons_to_ios and print_next_steps    *)
(* follow it, in that order, only if it returned True, and all three are   *)
(* executed when it returned True and none of them raised; a raise in one  *)
(* of them ends the run with status 1.                                     *)
C4_Amended ==
    /\ OrderAndGates
    /\ RunEnded =>
          /\ genResult = "True" <=> "create_ios_contents_json" \in Range(calls)
          /\ (genResult = "True" /\ ~faulted) => calls = FullOrder /\ status = 0
          /\ (genResult = "True" /\ calls # FullOrder) => faulted /\ status = 1

C4_Witness ==
    /\ RunEnded /\ genResult = "True" /\ faulted /\ status = 1
    /\ calls = <<"create_directories", "generate_icons",
                 "create_ios_contents_json">>
    /\ ~ManifestWritten

(* C6: after a successful run the .png files copied into                   *)
(* AppIcon.appiconset are exactly the 12 iOS icons this run generated (the *)
(* files Contents.json lists), whatever generated/ios held before the run. *)
C6_CopiesOnlyGenerated ==
    RunSucceeded => copied = {<<AppIconSet, n>> : n \in IosNames}

Untouched(p) ==
    /\ p \in DOMAIN fs <=> p \in DOMAIN startFs
    /\ p \in DOMAIN fs => fs[p] = startFs[p]

(* C7: when opening the source or the k-th write of the fixed order fails, *)
(* generate_icons returns False and main prints 'Icon generation failed'   *)
(* and exits with 1; the first k-1 outputs are on disk, no later output is *)
(* written, and no Contents.json is written and no icon copied in that     *)
(* run.                                                                    *)
C7_FailureInGenerate ==
    (genResult = "False" /\ ~SourceMissing) =>
        /\ "Error generating icons" \in Range(out)
        /\ ~SourceOpenable => fs = startFs /\ written = <<>>
        /\ \A k \in {Len(written) + 1} :
              /\ k <= Len(WriteOrder)
              /\ written = [i \in 1..(k - 1) |-> WriteOrder[i].path]
              /\ SourceOpenable =>
                    \A img \in {startFs[SourceArg]} :
                       \A i \in 1..(k - 1) : Made(fs, WriteOrder[i], img)
              /\ \A j \in (k + 1)..Len(WriteOrder) : Untouched(WriteOrder[j].path)
        /\ \A p \in (DOMAIN fs) \cup (DOMAIN startFs) :
              Dirname(p) = AppIconSet => Untouched(p)
        /\ copied = {}
        /\ calls = <<"create_directories", "generate_icons">>
        /\ RunEnded =>
              /\ status = 1
              /\ out[Len(out)] = "Icon generation failed"

C7_Witness ==
    /\ RunEnded /\ genResult = "False" /\ SourceOpenable /\ faulted
    /\ Len(written) = 14
    /\ <<Mipmap("xxxhdpi"), "ic_launcher.png">> \in DOMAIN fs
    /\ <<Mipmap("xxxhdpi"), "ic_launcher_round.png">> \notin DOMAIN fs
    /\ ManifestPath \notin DOMAIN fs

DirList == Range(directories)

(* The paths generate_icons and create_ios_contents_json compute. *)
ComputedPaths ==
    {GenOutputs(Original("any", 1024, 1024))[i].path
        : i \in 1..Len(GenOutputs(Original("any", 1024, 1024)))}
    \cup {contents_path}

ComputedPathsInList ==
    /\ \A p \in ComputedPaths : Dirname(p) \in DirList
    /\ target_dir \in DirList

(* The files that are new, or hold something else, since the run started. *)
ChangedFiles ==
    {p \in DOMAIN fs : p \notin DOMAIN startFs \/ fs[p] # startFs[p]}

(* C8: every file a run writes goes into a directory of the list of        *)
(* create_directories, made earlier in the run: the directory of every     *)
(* computed output path, of Contents.json and of every copy target is in   *)
(* the list, and so is the directory of every file that is new or changed *)
(* since the run started, a truncated or a whole target of a failed write  *)
(* or copy included; and in a successful run every directory of the list   *)
(* receives a file.                                                        *)
C8_WritesIntoCreatedDirs ==
    /\ ComputedPathsInList
    /\ \A d \in {Dirname(p) : p \in Range(written) \cup copied}
                \cup {Dirname(p) : p \in ChangedFiles} :
          /\ d \in DirList
          /\ d \in dirs
          /\ calls[1] = "create_directories"
    /\ RunSucceeded =>
          DirList \subseteq {Dirname(p) : p \in Range(written) \cup copied}

C8_Witness ==
    /\ RunSucceeded
    /\ startDirs \cap DirList = {GeneratedIos}
    /\ Cardinality(DirList) = 9
    /\ Cardinality(Range(written) \cup copied) = 43

(* C9: a second run with the same source image, started from what a        *)
(* successful run left, succeeds too and leaves the same directories and   *)
(* files with the same content.                                            *)
C9_Idempotent ==
    (RunEnded /\ Len(argv) = 2 /\ lastOk = argv[2] /\ ~faulted) =>
        /\ status = 0
        /\ fs = startFs
        /\ dirs = startDirs

C9_Witness ==
    /\ RunSucceeded /\ runs >= 2 /\ lastOk = argv[2]
    /\ Len(written) = 30
    /\ fs = startFs
    /\ DirList \subseteq startDirs

(***************************************************************************)
(* The manifest's numbers.  The 'size' string "AxB" is read in tenths of a *)
(* point ("83.5" is 835), the 'scale' string "Nx" as the integer N.        *)
(***************************************************************************)
IsDigit(c) == \E d \in 0..9 : ToString(d) = c
DigitOf(c) == CHOOSE d \in 0..9 : ToString(d) = c

IsNumber(str) == Len(str) > 0 /\ \A i \in 1..Len(str) : IsDigit(Char(str, i))

RECURSIVE ParseNat(_)
ParseNat(str) ==
    IF Len(str) = 0 THEN 0
    ELSE 10 * ParseNat(SubSeq(str, 1, Len(str) - 1))
         + DigitOf(Char(str, Len(str)))

(* A decimal with at most one digit after the point, in tenths; -1 when    *)
(* the string is no such decimal.                                          *)
ParseTenths(str) ==
    LET dot == First({i \in 1..Len(str) : Char(str, i) = "."})
    IN  IF dot = 0
        THEN IF IsNumber(str) THEN 10 * ParseNat(str) ELSE -1
        ELSE IF /\ Len(str) = dot + 1
                /\ IsNumber(SubSeq(str, 1, dot - 1))
                /\ IsDigit(Char(str, dot + 1))
             THEN 10 * ParseNat(SubSeq(str, 1, dot - 1))
                  + DigitOf(Char(str, dot + 1))
             ELSE -1

(* <<width, height>> of "AxB" in tenths of a point. *)
ParseSize(str) ==
    LET x == First({i \in 1..Len(str) : Char(str, i) = "x"})
    IN  <<ParseTenths(SubSeq(str, 1, x - 1)),
          ParseTenths(SubSeq(str, x + 1, Len(str)))>>

(* N of "Nx"; -1 when the string is not of that form. *)
ParseScale(str) ==
    IF Len(str) >= 2 /\ Char(str, Len(str)) = "x"
          /\ IsNumber(SubSeq(str, 1, Len(str) - 1))
    THEN ParseNat(SubSeq(str, 1, Len(str) - 1))
    ELSE -1

(* The entries of the iOS table whose file name is the given one. *)
TableEntries(filename) ==
    {e \in Range(ICON_SIZES.ios) : NameOf(e) = filename}

(* The dictionary create_ios_contents_json dumps: each entry's size times  *)
(* scale is the pixel size of the one table entry with its file name, and  *)
(* the entries differ pairwise in file name and in (idiom, size, scale).   *)
DumpedConsistent ==
    LET images == contents.images
    IN  /\ Len(images) = 12
        /\ \A i \in 1..Len(images) :
              /\ ParseScale(images[i].scale) \in {1, 2, 3}
              /\ Cardinality(TableEntries(images[i].filename)) = 1
              /\ \A e \in TableEntries(images[i].filename) :
                    /\ ParseSize(images[i].size)[1]
                          * ParseScale(images[i].scale) = 10 * e[1]
                    /\ ParseSize(images[i].size)[2]
                          * ParseScale(images[i].scale) = 10 * e[2]
        /\ \A i, j \in 1..Len(images) :
              i # j =>
                 /\ images[i].filename # images[j].filename
                 /\ <<images[i].idiom, images[i].size, images[i].scale>>
                       # <<images[j].idiom, images[j].size, images[j].scale>>

(* <<width, height>> in pixels that entry i of the dumped dictionary       *)
(* states: size times scale.                                               *)
DumpedPixels ==
    [i \in 1..Len(contents.images) |->
        <<(ParseSize(contents.images[i].size)[1]
              * ParseScale(contents.images[i].scale)) \div 10,
          (ParseSize(contents.images[i].size)[2]
              * ParseScale(contents.images[i].scale)) \div 10>>]

(* C10: a Contents.json on disk holds the dumped dictionary, whose 12      *)
(* entries are dimensionally consistent with the iOS table and pairwise    *)
(* distinct; after a successful run the file each entry names has the      *)
(* pixel width and height size times scale.                                *)
C10_ManifestDimensions ==
    ManifestOnDisk =>
        /\ Manifest.images = contents.images
        /\ DumpedConsistent
        /\ RunSucceeded =>
              \A i \in 1..Len(Manifest.images) :
                 \A f \in {fs[<<AppIconSet, Manifest.images[i].filename>>]} :
                    <<f.w, f.h>> = DumpedPixels[i]

C10_Witness ==
    /\ ManifestOnDisk /\ RunSucceeded
    /\ \E i \in 1..Len(Manifest.images) :
          /\ Manifest.images[i].size = "83.5x83.5"
          /\ DumpedPixels[i] = <<167, 167>>
          /\ fs[<<AppIconSet, Manifest.images[i].filename>>].w = 167
====
